---- MODULE Spec2Model ----
(***************************************************************************)
(* FleetFS: the raft manager (src/src/raft_manager.rs), the request router *)
(* (src/src/handlers/router.rs) and the freshness handshake of reads.      *)
(*                                                                         *)
(* One consensus group replicated on the nodes of Nodes.  Every node runs  *)
(* a RaftManager: the consensus state behind the raft_node mutex (log,     *)
(* commit index, applied index), the pending_responses table, the applier  *)
(* (_process_raft_queue, driven by background_tick) and the handlers that  *)
(* call propose.  The consensus library and the peers are the environment: *)
(* elections, replication and commit follow the contract of a log-         *)
(* replicated consensus protocol (a committed prefix is never lost).       *)
(*                                                                         *)
(* Beside the group: request_router over the groups of one node, the       *)
(* start-up loop RaftManager::initialize, the driver callbacks of          *)
(* FleetFUSE (src/src/fleetfs/fuse.rs) and the MetadataStorage             *)
(* (src/src/metadata_storage.rs), each with a specification of its own.    *)
(***************************************************************************)
EXTENDS Naturals, Sequences, FiniteSets, TLC

VARIABLES
    leader,             \* raft.leader_id of the group; 0 = no leader (election running)
    elections,          \* elections held so far
    log,                \* log[n]: the raft_log of node n; entry 0 = empty new-leader entry, r = request r
    commit,             \* commit[n]: committed index known to node n
    applied,            \* applied[n]: index up to which node n has advanced (raft_node.advance)
    store,              \* store[n]: the handler invocations of node n, <<index, request>> in order
    pending_responses,  \* pending_responses[n][i]: the request whose (builder, sender) waits at index i; 0 = none
    poisoned,           \* poisoned[n]: a thread panicked while holding the mutexes of node n
    fwd,                \* proposals a follower forwarded to the leader, still in flight
    pc,                 \* pc[r]: where the handler that proposes request r stands
    pnode,              \* pnode[r]: the node on which r was proposed; 0 = not yet
    pidx,               \* pidx[r]: the index _propose returned for r
    resp,               \* resp[r]: the request whose handler filled the builder delivered to r's caller; 0 = none
    before,             \* before[r]: the requests whose response was delivered when propose(r) started
    rpc,                \* the reading handler: "idle", "sync", "served", "error"
    rnode,              \* the node serving the read; 0 = none
    rL,                 \* the index get_latest_commit_from_leader returned for the read
    rAt,                \* the applied index of the serving node when the storage read was invoked
    rdone,              \* the requests whose response was delivered when the read started
    rmiss,              \* the requests of rdone the state read did not hold
    rerr,               \* the error code of a failed read; "" = none
    routed,             \* requests request_router has handled
    glog,               \* glog[g]: the requests committed in the log of group g, by number
    last,               \* what request_router did for the request it handled last
    ipc,                \* ipc[n]: where RaftManager::initialize of node n stands
    irounds,            \* irounds[n]: polls of initialize on node n that saw no leader
    iseen,              \* iseen[n]: the leader_id initialize saw when it returned; 0 = not returned
    fcalls,             \* driver callbacks made so far
    fsent,              \* requests the driver's client has sent to the server
    flast,              \* the last driver callback: what it returned and the requests it sent
    file_lengths,       \* MetadataStorage.file_lengths: path -> length; None = no entry
    uids,               \* MetadataStorage.uids
    gids,               \* MetadataStorage.gids
    mops,               \* operations made on the MetadataStorage so far
    mlast,              \* the last operation on the MetadataStorage
    thread,             \* thread[t]: the RaftManager call thread t is in, statement by statement
    node,               \* the consensus state, tables and transport of the node the threads run on
    locks,              \* the raft_node mutex and the pending_responses mutex of that node
    started,            \* RaftManager calls started so far
    reader,             \* reader[t]: where thread t stands in NodeClient::read
    client              \* the NodeClient: server_v2_connection, its mutex, and the streams it opened

vars == <<leader, elections, log, commit, applied, store, pending_responses, poisoned,
          fwd, pc, pnode, pidx, resp, before, rpc, rnode, rL, rAt, rdone, rmiss, rerr,
          routed, glog, last, ipc, irounds, iseen, fcalls, fsent, flast,
          file_lengths, uids, gids, mops, mlast, thread, node, locks, started,
          reader, client>>

raftVars == <<leader, elections, log, commit, applied, store, pending_responses, poisoned, fwd>>
propVars == <<pc, pnode, pidx, resp, before>>
readVars == <<rpc, rnode, rL, rAt, rdone, rmiss, rerr>>
routerVars == <<routed, glog, last>>
initVars == <<ipc, irounds, iseen>>
fuseVars == <<fcalls, fsent, flast>>
metaVars == <<file_lengths, uids, gids, mops, mlast>>
lockVars == <<thread, node, locks, started>>
clientVars == <<reader, client>>
localVars == <<initVars, fuseVars, metaVars, lockVars, clientVars>>

(***************************************************************************)
(* Bounds                                                                  *)
(***************************************************************************)
MaxReq == 3          \* write requests a sequential client issues in a run
MaxConc == 2         \* handlers that propose concurrently in a run
MaxRouted == 2       \* requests handed to request_router in a run
MaxInode == 2        \* inode numbers 1..MaxInode
MaxElections == 2    \* elections in a run (the first one elects the first leader)
MaxRounds == 3       \* polls of the waiting loop of initialize (for _ in 0..100)
MaxCallbacks == 3    \* driver callbacks in a run
MaxOps == 3          \* operations on a MetadataStorage in a run
MaxPath == 2         \* paths 1..MaxPath
MaxLength == 3       \* lengths and offsets 0..MaxLength
MaxCalls == 4        \* RaftManager calls the threads of one node make in a run
MaxEntries == 3      \* entries in the log of that node
MaxReads == 4        \* calls of NodeClient::read in a run

Nodes == {1, 2}
FirstLeader == CHOOSE n \in Nodes : \A m \in Nodes : n <= m   \* node ids are interchangeable until the first election
Requests == 1..MaxReq
MaxIdx == MaxReq + MaxElections
all_groups == <<0, 1>>                       \* the consensus groups of this node, by id
Groups == {all_groups[k] : k \in 1..Len(all_groups)}
Inodes == 1..MaxInode
Quorum == (Cardinality(Nodes) \div 2) + 1
Paths == 1..MaxPath
Lengths == 0..MaxLength
None == <<>>                                 \* Option::None
Some(x) == <<x>>                             \* Option::Some

NoCallback == [cb |-> "", ret |-> "", sent |-> 0]

Threads == {1, 2, 3}                         \* the runtime's threads on one node
NoReady == [entries |-> 0, first |-> 1, last |-> 0]
Idle == [pc |-> "idle", op |-> "", index |-> 0, ready |-> NoReady, entry |-> 0,
         messages |-> 0, events |-> <<>>]
\* a node that has just become leader: its empty entry is in the log, not yet stable
NewNode == [log |-> <<0>>, stable |-> 0, commit |-> 0, applied |-> 0, handled |-> <<>>,
            table |-> {}, dropped |-> {}, out |-> 1, sent |-> 0]
Readers == {1, 2}                            \* the driver's threads that call NodeClient::read
NotReading == [pc |-> "idle", stream |-> 0, result |-> ""]
\* NodeClient::new: server_v2_connection = None (0), its mutex free, no stream opened;
\* wire: what went over the streams, <<stream, thread, "request" | "response">>
NewClient == [server_v2_connection |-> 0, lock |-> 0, opened |-> 0, closed |-> {},
              reads |-> 0, wire |-> <<>>]
NoOperation == [op |-> "", path |-> 0, new_path |-> 0, arg |-> 0, length |-> 0, outcome |-> ""]

(***************************************************************************)
(* Helpers                                                                 *)
(***************************************************************************)
Max(a, b) == IF a >= b THEN a ELSE b
Count(events, e) == Cardinality({k \in 1..Len(events) : events[k] = e})
Prefix(s, k) == SubSeq(s, 1, k)

\* raft_log.last_index()
last_index(n) == Len(log[n])

\* the index request r occupies in the log of node n; 0 = not in it
IndexOf(r, n) ==
    IF \E i \in 1..Len(log[n]) : log[n][i] = r
    THEN CHOOSE i \in 1..Len(log[n]) : log[n][i] = r
    ELSE 0

\* the requests whose handler has run on node n
AppliedReqs(n) == {store[n][k][2] : k \in 1..Len(store[n])}

\* the largest index up to which a quorum holds the log of node l
QuorumMatch(l) ==
    LET ok(i) == Cardinality({m \in Nodes : Len(log[m]) >= i /\ Prefix(log[m], i) = Prefix(log[l], i)}) >= Quorum
        S == {i \in 0..Len(log[l]) : ok(i)}
    IN  CHOOSE i \in S : \A j \in S : j <= i

\* node n holds every entry some node knows to be committed
HoldsCommitted(n) ==
    \A m \in Nodes : /\ commit[m] <= Len(log[n])
                     /\ Prefix(log[n], commit[m]) = Prefix(log[m], commit[m])

(***************************************************************************)
(* The request variants, by the arm of request_router_inner that takes them *)
(***************************************************************************)

\* arms that run sync_with_leader and then call file_storage() themselves
SyncedReads == {"ReadRequest", "LookupRequest", "GetXattrRequest", "ListXattrsRequest",
                "ReaddirRequest", "GetattrRequest"}

\* a router whose own storage calls would include the write arm
LocalReads_with_write == SyncedReads \cup {"ReadRawRequest", "WriteRequest"}

\* arms that call file_storage() themselves
LocalReads == SyncedReads \cup {"ReadRawRequest"}

\* a router that would route create-link by the inode instead of the parent
ProposeByInode_with_link ==
    {"SetXattrRequest", "RemoveXattrRequest", "WriteRequest", "UtimensRequest",
     "ChmodRequest", "ChownRequest", "TruncateRequest", "FsyncRequest",
     "LockRequest", "UnlockRequest", "HardlinkIncrementRequest",
     "HardlinkRollbackRequest", "DecrementInodeRequest", "UpdateParentRequest",
     "UpdateMetadataChangedTimeRequest", "CreateLinkRequest"}

\* arms that propose to lookup_by_inode(inode)
ProposeByInode == {"SetXattrRequest", "RemoveXattrRequest", "WriteRequest", "UtimensRequest",
                   "ChmodRequest", "ChownRequest", "TruncateRequest", "FsyncRequest",
                   "LockRequest", "UnlockRequest", "HardlinkIncrementRequest",
                   "HardlinkRollbackRequest", "DecrementInodeRequest", "UpdateParentRequest",
                   "UpdateMetadataChangedTimeRequest"}

\* arms that propose to lookup_by_inode(parent)
ProposeByParent == {"RemoveLinkRequest", "ReplaceLinkRequest", "CreateLinkRequest"}

\* arms that hand the request to the transaction coordinator
Transactions == {"UnlinkRequest", "RmdirRequest", "MkdirRequest", "CreateRequest",
                 "HardlinkRequest", "RenameRequest"}

\* arms that read no payload
NoPayload == {"FilesystemCheckRequest", "FilesystemChecksumRequest", "FilesystemReadyRequest"}

RequestTypes ==
    LocalReads \cup ProposeByInode \cup ProposeByParent \cup Transactions \cup NoPayload
        \cup {"CreateInodeRequest", "RaftRequest", "LatestCommitRequest"}

\* the request variants that change the storage of a group (writes and internal requests)
Mutating == ProposeByInode \cup ProposeByParent \cup {"CreateInodeRequest"}

NoRequest == [type |-> "NONE", inode |-> 0, parent |-> 0, decodes |-> FALSE,
              proposals |-> <<>>, handshakes |-> <<>>, calls |-> <<>>,
              outcome |-> "", tag |-> "", code |-> "",
              response |-> [returned |-> 0, builder |-> "", finalized |-> <<>>,
                            tag |-> "", code |-> ""]]

\* LocalRaftGroupManager::lookup_by_inode
lookup_by_inode(inode) == inode % Len(all_groups)

\* LocalRaftGroupManager::least_loaded_group: least load, then least id
least_loaded_group(load) ==
    CHOOSE g \in Groups : \A h \in Groups : load[g] < load[h] \/ (load[g] = load[h] /\ g <= h)

\* a loop that would ignore the result of every handshake
FirstFailure_ignored(hs) == 0

\* the place in all_groups of the first group whose handshake fails; 0 = none
FirstFailure(hs) ==
    IF \E k \in 1..Len(all_groups) : hs[all_groups[k]] # "ok"
    THEN CHOOSE k \in 1..Len(all_groups) :
            /\ hs[all_groups[k]] # "ok"
            /\ \A j \in 1..(k - 1) : hs[all_groups[j]] = "ok"
    ELSE 0

(***************************************************************************)
(* State after construction (RaftManager::new on every node)               *)
(***************************************************************************)
Init ==
    /\ leader = 0
    /\ elections = 0
    /\ log = [n \in Nodes |-> <<>>]
    /\ commit = [n \in Nodes |-> 0]
    /\ applied = [n \in Nodes |-> 0]
    /\ store = [n \in Nodes |-> <<>>]
    /\ pending_responses = [n \in Nodes |-> [i \in 0..MaxIdx |-> 0]]
    /\ poisoned = [n \in Nodes |-> FALSE]
    /\ fwd = {}
    /\ pc = [r \in Requests |-> "idle"]
    /\ pnode = [r \in Requests |-> 0]
    /\ pidx = [r \in Requests |-> 0]
    /\ resp = [r \in Requests |-> 0]
    /\ before = [r \in Requests |-> {}]
    /\ rpc = "idle"
    /\ rnode = 0
    /\ rL = 0
    /\ rAt = 0
    /\ rdone = {}
    /\ rmiss = {}
    /\ rerr = ""
    /\ routed = 0
    /\ glog = [g \in Groups |-> <<>>]
    /\ last = NoRequest
    /\ ipc = [n \in Nodes |-> "polling"]
    /\ irounds = [n \in Nodes |-> 0]
    /\ iseen = [n \in Nodes |-> 0]
    /\ fcalls = 0
    /\ fsent = 0
    /\ flast = NoCallback
    /\ file_lengths = [p \in Paths |-> None]
    /\ uids = [p \in Paths |-> None]
    /\ gids = [p \in Paths |-> None]
    /\ mops = 0
    /\ mlast = NoOperation
    /\ thread = [t \in Threads |-> Idle]
    /\ node = NewNode
    /\ locks = [raft_node |-> 0, pending_responses |-> 0,
                raft_node_poisoned |-> FALSE, pending_responses_poisoned |-> FALSE]
    /\ started = 0
    /\ reader = [t \in Readers |-> NotReading]
    /\ client = NewClient

(***************************************************************************)
(* The consensus layer (raft-rs behind raft_node, and the peers)           *)
(***************************************************************************)

\* An election is won by node n: raft_node.tick() campaigns, the votes arrive
\* through apply_messages (raft_node.step), and the new leader appends its
\* empty entry.  A winner holds every committed entry.
Elect(n) ==
    /\ leader = 0
    /\ elections < MaxElections
    /\ ~poisoned[n]
    /\ HoldsCommitted(n)
    /\ (elections = 0 => n = FirstLeader)
    /\ leader' = n
    /\ elections' = elections + 1
    /\ log' = [log EXCEPT ![n] = Append(@, 0)]
    /\ UNCHANGED <<commit, applied, store, pending_responses, poisoned, fwd>>
    /\ UNCHANGED propVars
    /\ UNCHANGED readVars
    /\ UNCHANGED routerVars
    /\ UNCHANGED localVars

\* The leader is deposed (a higher term is observed in raft_node.step, or the
\* followers' election timeout fires in raft_node.tick()).
StepDown ==
    /\ leader # 0
    /\ elections < MaxElections
    /\ leader' = 0
    /\ UNCHANGED <<elections, log, commit, applied, store, pending_responses, poisoned, fwd>>
    /\ UNCHANGED propVars
    /\ UNCHANGED readVars
    /\ UNCHANGED routerVars
    /\ UNCHANGED localVars

\* what stepping the leader's append messages leaves in the log of follower n
StepAppend(n) == log[leader]

\* what stepping the followers' append responses makes the leader's commit index
StepAppendResponse(n) == Max(commit[n], QuorumMatch(n))

\* RaftManager::apply_messages on node n: the messages are stepped into the
\* consensus state; nothing is applied, nothing is sent.
apply_messages(n) ==
    /\ leader # 0
    /\ ~poisoned[n]
    /\ IF n = leader
       THEN /\ commit' = [commit EXCEPT ![n] = StepAppendResponse(n)]
            /\ log' = log
       ELSE /\ ~poisoned[leader]
            /\ log' = [log EXCEPT ![n] = StepAppend(n)]
            /\ commit' = [commit EXCEPT ![n] = Max(@, commit[leader])]
    /\ <<log', commit'>> # <<log, commit>>
    /\ UNCHANGED <<leader, elections, applied, store, pending_responses, poisoned, fwd>>
    /\ UNCHANGED propVars
    /\ UNCHANGED readVars
    /\ UNCHANGED routerVars
    /\ UNCHANGED localVars

\* A proposal forwarded by a follower reaches the leader (send_outgoing_raft_messages
\* on the follower, apply_messages on the leader), which appends it.
DeliverForward(r) ==
    /\ r \in fwd
    /\ leader # 0
    /\ ~poisoned[leader]
    /\ log' = [log EXCEPT ![leader] = Append(@, r)]
    /\ fwd' = fwd \ {r}
    /\ UNCHANGED <<leader, elections, commit, applied, store, pending_responses, poisoned>>
    /\ UNCHANGED propVars
    /\ UNCHANGED readVars
    /\ UNCHANGED routerVars
    /\ UNCHANGED localVars

(***************************************************************************)
(* The applier: background_tick -> process_raft_queue -> _process_raft_queue *)
(***************************************************************************)

\* the committed entries the ready of node n hands to the applier
committed_entries(n) == (applied[n] + 1)..commit[n]

\* an iteration that would run the handler only for an entry somebody waits for
ApplyEntry_only_pending(n, i, st) ==
    LET e == log[n][i]
        q == st.pend[i]
    IN  IF e = 0 \/ q = 0
        THEN st
        ELSE LET st1 == [st EXCEPT !.pend[i] = 0, !.store = Append(@, <<i, e>>)]
             IN  IF st.pc[q] = "cancelled"
                 THEN [st1 EXCEPT !.panic = TRUE]
                 ELSE [st1 EXCEPT !.pc[q] = "done", !.resp[q] = e]

\* an iteration that would answer the waiter registered at an empty entry
ApplyEntry_answering_empty(n, i, st) ==
    LET e == log[n][i]
        q == st.pend[i]
    IN  IF q # 0
        THEN LET st1 == [st EXCEPT !.pend[i] = 0,
                                   !.store = IF e = 0 THEN @ ELSE Append(@, <<i, e>>)]
             IN  IF st.pc[q] = "cancelled"
                 THEN [st1 EXCEPT !.panic = TRUE]
                 ELSE [st1 EXCEPT !.pc[q] = "done", !.resp[q] = e]
        ELSE IF e = 0 THEN st ELSE [st EXCEPT !.store = Append(@, <<i, e>>)]

\* One iteration of the loop over the committed entries, for entry i.
\* st = [pend, store, pc, resp, panic]
ApplyEntry(n, i, st) ==
    LET e == log[n][i]
        q == st.pend[i]
    IN  IF e = 0
        THEN st                                   \* entry.data.is_empty(): continue
        ELSE IF q # 0
             THEN LET st1 == [st EXCEPT !.pend[i] = 0,
                                        !.store = Append(@, <<i, e>>)]
                  IN  IF st.pc[q] = "cancelled"
                      THEN [st1 EXCEPT !.panic = TRUE]     \* sender.send(..).ok().unwrap()
                      ELSE [st1 EXCEPT !.pc[q] = "done", !.resp[q] = e]
             ELSE [st EXCEPT !.store = Append(@, <<i, e>>)]

RECURSIVE ApplyFrom(_, _, _, _)
ApplyFrom(n, i, hi, st) ==
    IF i > hi \/ st.panic
    THEN st
    ELSE ApplyFrom(n, i + 1, hi, ApplyEntry(n, i, st))

advance_stuck(n) == applied[n]

\* the applied index raft_node.advance(ready) leaves
advance(n) == commit[n]

background_tick(n) ==
    /\ ~poisoned[n]
    /\ committed_entries(n) # {}                  \* raft_node.has_ready()
    /\ LET st0 == [pend |-> pending_responses[n], store |-> store[n],
                   pc |-> pc, resp |-> resp, panic |-> FALSE]
           st == ApplyFrom(n, applied[n] + 1, commit[n], st0)
       IN  /\ pending_responses' = [pending_responses EXCEPT ![n] = st.pend]
           /\ store' = [store EXCEPT ![n] = st.store]
           /\ pc' = st.pc
           /\ resp' = st.resp
           /\ poisoned' = [poisoned EXCEPT ![n] = st.panic]
           /\ applied' = [applied EXCEPT ![n] = IF st.panic THEN @ ELSE advance(n)]
    /\ UNCHANGED <<leader, elections, log, commit, fwd>>
    /\ UNCHANGED <<pnode, pidx, before>>
    /\ UNCHANGED readVars
    /\ UNCHANGED routerVars
    /\ UNCHANGED localVars

(***************************************************************************)
(* RaftManager::propose                                                    *)
(***************************************************************************)

\* what raft_node.propose answers on node n: "append" (leader), "forward"
\* (follower that knows the leader), "dropped" (no leader: Err(ProposalDropped))
ProposeOutcome(n) ==
    IF leader = n THEN "append"
    ELSE IF leader # 0 THEN "forward"
    ELSE "dropped"

\* the result propose hands to its caller when _propose fails
ProposeFailure(err) == "panic"                    \* self._propose(..).unwrap()

\* propose up to the return of _propose
_propose(r, n) ==
    /\ pc[r] = "idle"
    /\ \A q \in Requests : q < r => pc[q] # "idle"     \* request ids are interchangeable
    /\ IF poisoned[n]
       THEN /\ pc' = [pc EXCEPT ![r] = "panic"]   \* raft_node.lock().unwrap()
            /\ UNCHANGED <<log, fwd, pidx, pnode, before>>
       ELSE CASE ProposeOutcome(n) = "append" ->
                   /\ log' = [log EXCEPT ![n] = Append(@, r)]
                   /\ pidx' = [pidx EXCEPT ![r] = Len(log[n]) + 1]
                   /\ pc' = [pc EXCEPT ![r] = "proposed"]
                   /\ pnode' = [pnode EXCEPT ![r] = n]
                   /\ before' = [before EXCEPT ![r] = {q \in Requests : pc[q] = "done"}]
                   /\ fwd' = fwd
              [] ProposeOutcome(n) = "forward" ->
                   /\ fwd' = fwd \cup {r}
                   /\ pidx' = [pidx EXCEPT ![r] = last_index(n)]
                   /\ pc' = [pc EXCEPT ![r] = "proposed"]
                   /\ pnode' = [pnode EXCEPT ![r] = n]
                   /\ before' = [before EXCEPT ![r] = {q \in Requests : pc[q] = "done"}]
                   /\ log' = log
              [] OTHER ->
                   /\ pc' = [pc EXCEPT ![r] = ProposeFailure("ProposalDropped")]
                   /\ UNCHANGED <<log, fwd, pidx, pnode, before>>
    /\ UNCHANGED <<leader, elections, commit, applied, store, pending_responses, poisoned, resp>>
    /\ UNCHANGED readVars
    /\ UNCHANGED routerVars
    /\ UNCHANGED localVars

\* propose after _propose returned: the (builder, sender) pair is inserted
insert_pending(r) ==
    /\ pc[r] = "proposed"
    /\ LET n == pnode[r]
           i == pidx[r]
           old == pending_responses[n][i]
       IN  IF poisoned[n]
           THEN /\ pc' = [pc EXCEPT ![r] = "panic"]      \* pending_responses.lock().unwrap()
                /\ pending_responses' = pending_responses
           ELSE /\ pending_responses' = [pending_responses EXCEPT ![n][i] = r]
                /\ pc' = [q \in Requests |->
                            IF q = r THEN "await"
                            ELSE IF q = old /\ pc[q] = "await" THEN "failed"   \* its sender is dropped
                            ELSE pc[q]]
    /\ UNCHANGED <<leader, elections, log, commit, applied, store, poisoned, fwd>>
    /\ UNCHANGED <<pnode, pidx, resp, before>>
    /\ UNCHANGED readVars
    /\ UNCHANGED routerVars
    /\ UNCHANGED localVars

\* the caller drops the future propose returned
Cancel(r) ==
    /\ pc[r] = "await"
    /\ pc' = [pc EXCEPT ![r] = "cancelled"]
    /\ UNCHANGED raftVars
    /\ UNCHANGED <<pnode, pidx, resp, before>>
    /\ UNCHANGED readVars
    /\ UNCHANGED routerVars
    /\ UNCHANGED localVars

(***************************************************************************)
(* The read path of the router                                             *)
(***************************************************************************)

\* RaftNode::get_latest_local_commit on node l
get_latest_local_commit(l) == applied[l]

\* RaftNode::sync(index) has returned Ok on node n
sync(n, index) == applied[n] >= index

sync_with_leader_nowait(n, latest_commit) == TRUE

\* sync_with_leader, after get_latest_commit_from_leader returned latest_commit
sync_with_leader(n, latest_commit) == sync(n, latest_commit)

\* the router starts a read on node n: get_latest_commit_from_leader
StartRead(n) ==
    /\ rpc = "idle"
    /\ rAt' = 0
    /\ rmiss' = {}
    /\ IF leader = 0 \/ poisoned[leader]
       THEN /\ rpc' = "error"
            /\ rerr' = "LeaderUnreachable"
            /\ rnode' = 0
            /\ rL' = 0
            /\ rdone' = {}
       ELSE /\ rpc' = "sync"
            /\ rerr' = ""
            /\ rnode' = n
            /\ rL' = get_latest_local_commit(leader)
            /\ rdone' = {q \in Requests : pc[q] = "done"}
    /\ UNCHANGED raftVars
    /\ UNCHANGED propVars
    /\ UNCHANGED routerVars
    /\ UNCHANGED localVars

\* sync returned Ok: the router invokes the storage read
ServeRead ==
    /\ rpc = "sync"
    /\ sync_with_leader(rnode, rL)
    /\ rpc' = "served"
    /\ rAt' = applied[rnode]
    /\ rmiss' = rdone \ AppliedReqs(rnode)
    /\ rdone' = {}
    /\ UNCHANGED <<rnode, rL, rerr>>
    /\ UNCHANGED raftVars
    /\ UNCHANGED propVars
    /\ UNCHANGED routerVars
    /\ UNCHANGED localVars

\* sync reached its deadline: the read fails and no storage read is made
SyncTimeout ==
    /\ rpc = "sync"
    /\ ~sync(rnode, rL)
    /\ rpc' = "error"
    /\ rerr' = "SyncTimeout"
    /\ rnode' = 0
    /\ rL' = 0
    /\ rdone' = {}
    /\ UNCHANGED <<rAt, rmiss>>
    /\ UNCHANGED raftVars
    /\ UNCHANGED propVars
    /\ UNCHANGED routerVars
    /\ UNCHANGED localVars

\* the response of the read has gone back to the client
ReturnRead ==
    /\ rpc \in {"served", "error"}
    /\ rpc' = "idle"
    /\ rnode' = 0
    /\ rL' = 0
    /\ rAt' = 0
    /\ rdone' = {}
    /\ rmiss' = {}
    /\ rerr' = ""
    /\ UNCHANGED raftVars
    /\ UNCHANGED propVars
    /\ UNCHANGED routerVars
    /\ UNCHANGED localVars

(***************************************************************************)
(* Specifications                                                          *)
(***************************************************************************)

\* the consensus layer and the background ticker of every node
Cluster ==
    \/ \E n \in Nodes : Elect(n)
    \/ StepDown
    \/ \E n \in Nodes : apply_messages(n)
    \/ \E r \in Requests : DeliverForward(r)
    \/ \E n \in Nodes : background_tick(n)

\* MaxConc handlers propose concurrently; a caller may drop its wait
Next ==
    \/ Cluster
    \/ \E r \in 1..MaxConc, n \in Nodes : _propose(r, n)
    \/ \E r \in Requests : insert_pending(r)
    \/ \E r \in Requests : Cancel(r)

Spec == Init /\ [][Next]_vars

\* no handler is between the call of propose and the delivery of its response
NoneInFlight == \A q \in Requests : pc[q] \notin {"proposed", "await"}

\* the observation of a finished read is handed back before anything else happens
ReadReturned == rpc \notin {"served", "error"}

\* One client connection issues MaxReq writes one after the other, each on any
\* node, and never drops a wait; reads are served on any node at any time.
NextSeq ==
    \/ ReadReturned /\ Cluster
    \/ \E r \in Requests, n \in Nodes : ReadReturned /\ NoneInFlight /\ _propose(r, n)
    \/ \E r \in Requests : ReadReturned /\ insert_pending(r)
    \/ \E n \in Nodes : StartRead(n)
    \/ ServeRead
    \/ SyncTimeout
    \/ ReturnRead

SpecSeq == Init /\ [][NextSeq]_vars

\* One client connection issues MaxReq writes one after the other and keeps
\* waiting for each response; the ticker of every node keeps running
\* (background_tick is called every 100 ms) and a handler that proposed goes on
\* to insert its pending response.
NextLive ==
    \/ Cluster
    \/ \E r \in Requests, n \in Nodes : NoneInFlight /\ _propose(r, n)
    \/ \E r \in Requests : insert_pending(r)

FairSpec ==
    /\ Init
    /\ [][NextLive]_vars
    /\ \A n \in Nodes : WF_vars(background_tick(n))
    /\ \A r \in Requests : WF_vars(insert_pending(r))

(***************************************************************************)
(* request_router                                                          *)
(***************************************************************************)

\* what request_router_inner did for rq and what it returned
Effects(rq, proposals, handshakes, calls, outcome, tag, code) ==
    [type |-> rq.type, inode |-> rq.inode, parent |-> rq.parent, decodes |-> rq.decodes,
     proposals |-> proposals, handshakes |-> handshakes, calls |-> calls,
     outcome |-> outcome, tag |-> tag, code |-> code]

Failed(rq, proposals, handshakes, calls, code) ==
    Effects(rq, proposals, handshakes, calls, "Error", "", code)

BadRequest(rq) == Failed(rq, <<>>, <<>>, <<>>, "BadRequest")

StorageCall(by, rq, g) ==
    [by |-> by, op |-> rq.type, group |-> g, mutating |-> rq.type \in Mutating]

\* RaftNode::propose on group g: when the proposal is accepted the request is
\* committed in the log of g and the applier of g hands it to the storage handler
Proposed(rq, g, cres) ==
    IF cres # "ok" THEN Failed(rq, <<g>>, <<>>, <<>>, cres)
    ELSE Effects(rq, <<g>>, <<>>, <<StorageCall("applier", rq, g)>>, "Partial", "Handler", "")

\* sync_with_leader on group g: get_latest_commit_from_leader, then sync
Handshake(g, hs) == [group |-> g, call |-> "sync_with_leader", result |-> hs[g]]

\* an arm that would run a failed handshake a second time
SyncedRead_retry(rq, g, hs, cres) ==
    IF hs[g] # "ok" THEN Failed(rq, <<>>, <<Handshake(g, hs), Handshake(g, hs)>>, <<>>, hs[g])
    ELSE Effects(rq, <<>>, <<Handshake(g, hs)>>, <<StorageCall("router", rq, g)>>,
                 "Partial", "Handler", "")

\* an arm that runs sync_with_leader on group g and then the storage call itself
SyncedRead(rq, g, hs, cres) ==
    IF hs[g] # "ok" THEN Failed(rq, <<>>, <<Handshake(g, hs)>>, <<>>, hs[g])
    ELSE IF cres # "ok"
    THEN Failed(rq, <<>>, <<Handshake(g, hs)>>, <<StorageCall("router", rq, g)>>, cres)
    ELSE Effects(rq, <<>>, <<Handshake(g, hs)>>, <<StorageCall("router", rq, g)>>,
                 IF rq.type = "ReadRequest" THEN "Full" ELSE "Partial", "Handler", "")

\* an arm that makes the storage call itself, without sync_with_leader
DirectCall(rq, g) ==
    Effects(rq, <<>>, <<>>, <<StorageCall("router", rq, g)>>, "Full", "Handler", "")

\* for rgroup in raft.all_groups() { sync_with_leader(rgroup).await?; }
SyncAll(hs, k) ==
    [j \in 1..(IF k = 0 THEN Len(all_groups) ELSE k) |-> Handshake(all_groups[j], hs)]

\* for node in raft.all_groups() { node.get_leader().await?; }
LeaderAll(hs, k) ==
    [j \in 1..(IF k = 0 THEN Len(all_groups) ELSE k) |->
        [group |-> all_groups[j], call |-> "get_leader", result |-> hs[all_groups[j]]]]

\* request_router_inner: what the arm of rq.type does.  rq.decodes: the payload
\* can be decoded; hs[g]: how a handshake (or get_leader) on group g ends;
\* msg: the raft message carried by a RaftRequest; cres: what the collaborator
\* the arm calls (storage, propose, coordinator, fsck) returns; load[g]: the
\* load of group g
request_router_inner(rq, hs, msg, cres, load) ==
    LET t == rq.type
        k == FirstFailure(hs)
    IN  IF t = "FilesystemCheckRequest" THEN
            IF k # 0 THEN Failed(rq, <<>>, SyncAll(hs, k), <<>>, hs[all_groups[k]])
            ELSE IF cres # "ok"
            THEN Failed(rq, <<>>, SyncAll(hs, 0), <<StorageCall("fsck", rq, all_groups[1])>>, cres)
            ELSE Effects(rq, <<>>, SyncAll(hs, 0), <<StorageCall("fsck", rq, all_groups[1])>>,
                         "Partial", "Handler", "")
        ELSE IF t = "FilesystemChecksumRequest" THEN
            IF cres # "ok"
            THEN Failed(rq, <<>>, <<>>, <<StorageCall("fsck", rq, all_groups[1])>>, cres)
            ELSE Effects(rq, <<>>, <<>>, <<StorageCall("fsck", rq, all_groups[1])>>,
                         "Partial", "Handler", "")
        ELSE IF t = "FilesystemReadyRequest" THEN
            IF k # 0 THEN Failed(rq, <<>>, LeaderAll(hs, k), <<>>, hs[all_groups[k]])
            ELSE Effects(rq, <<>>, LeaderAll(hs, 0), <<>>, "Partial", "EmptyResponse", "")
        ELSE IF ~rq.decodes THEN BadRequest(rq)
        ELSE IF t \in LocalReads THEN
            LET g == lookup_by_inode(IF t = "LookupRequest" THEN rq.parent ELSE rq.inode)
            IN  IF t \in SyncedReads THEN SyncedRead(rq, g, hs, cres) ELSE DirectCall(rq, g)
        ELSE IF t \in ProposeByInode THEN Proposed(rq, lookup_by_inode(rq.inode), cres)
        ELSE IF t \in ProposeByParent THEN Proposed(rq, lookup_by_inode(rq.parent), cres)
        ELSE IF t = "CreateInodeRequest" THEN Proposed(rq, least_loaded_group(load), cres)
        ELSE IF t \in Transactions THEN
            IF cres # "ok" THEN Failed(rq, <<>>, <<>>, <<>>, cres)
            ELSE Effects(rq, <<>>, <<>>, <<>>, "Full", "Handler", "")
        ELSE IF t = "RaftRequest" THEN
            IF msg # "ok" THEN Effects(rq, <<>>, <<>>, <<>>, "Panic", "", "")   \* .unwrap(), assert_eq!
            ELSE Effects(rq, <<>>, <<>>, <<>>, "Partial", "EmptyResponse", "")
        ELSE \* LatestCommitRequest
            Effects(rq, <<>>, <<>>, <<>>, "Partial", "LatestCommitResponse", "")

\* request_router: the buffer it returns for what request_router_inner returned.
\* finalized: who called finalize_response on the returned buffer, in order
Respond(res) ==
    IF res.outcome = "Full"
    THEN [returned |-> 1, builder |-> "in-flight", finalized |-> <<"collaborator">>,
          tag |-> res.tag, code |-> ""]
    ELSE IF res.outcome = "Partial"
    THEN [returned |-> 1, builder |-> "in-flight", finalized |-> <<"router">>,
          tag |-> res.tag, code |-> ""]
    ELSE IF res.outcome = "Error"
    THEN [returned |-> 1, builder |-> "fresh", finalized |-> <<"router">>,
          tag |-> "ErrorResponse", code |-> res.code]
    ELSE [returned |-> 0, builder |-> "", finalized |-> <<>>, tag |-> "", code |-> ""]

RECURSIVE Commit(_, _, _)
\* the logs of the groups after request number id was committed in the groups of cs
Commit(gl, cs, id) ==
    IF cs = <<>> THEN gl
    ELSE Commit([gl EXCEPT ![Head(cs)] = Append(@, id)], Tail(cs), id)

ByApplier(call) == call.by = "applier"

\* the groups whose applier handled the request
Committed(res) ==
    LET applied_calls == SelectSeq(res.calls, ByApplier)
    IN  [k \in 1..Len(applied_calls) |-> applied_calls[k].group]

\* request_router handles one request
request_router(t, inode, parent, decodes, hs, msg, cres) ==
    /\ routed < MaxRouted
    /\ LET rq == [type |-> t, inode |-> inode, parent |-> parent, decodes |-> decodes]
           res == request_router_inner(rq, hs, msg, cres, [g \in Groups |-> Len(glog[g])])
       IN  /\ last' = res @@ [response |-> Respond(res)]
           /\ glog' = Commit(glog, Committed(res), routed + 1)
    /\ routed' = routed + 1
    /\ UNCHANGED raftVars
    /\ UNCHANGED propVars
    /\ UNCHANGED readVars
    /\ UNCHANGED localVars

HandshakeResults == {"ok", "LeaderUnreachable", "SyncTimeout"}

\* what the collaborator an arm calls returns: Ok or an error code
CollaboratorResults == {"ok", "Uncategorized"}

\* a raft message as RaftRequest carries it: well formed, bytes that do not
\* deserialize, addressed to another node, or rejected by raft.step
RaftMessages == {"ok", "undecodable", "misaddressed", "rejected"}

\* the arms that ask a group for its leader or its latest commit
Handshaking == SyncedReads \cup {"FilesystemCheckRequest", "FilesystemReadyRequest"}

\* the arms whose collaborator returns a Result
Fallible == RequestTypes \ {"ReadRawRequest", "LatestCommitRequest", "FilesystemReadyRequest",
                            "RaftRequest"}

NextRouter ==
    \E t \in RequestTypes, inode \in Inodes, parent \in Inodes, decodes \in BOOLEAN :
        \E hs \in IF t \in Handshaking THEN [Groups -> HandshakeResults]
                   ELSE {[g \in Groups |-> "ok"]},
           msg \in IF t = "RaftRequest" THEN RaftMessages ELSE {"ok"},
           cres \in IF t \in Fallible THEN CollaboratorResults ELSE {"ok"} :
            request_router(t, inode, parent, decodes, hs, msg, cres)

SpecRouter == Init /\ [][NextRouter]_vars

(***************************************************************************)
(* RaftManager::initialize                                                 *)
(***************************************************************************)

\* raft_node.raft.leader_id as node n reads it under the raft_node lock
leader_id(n) == leader

\* an initialize that would give up waiting and return
initialize_poll_giving_up(n) ==
    IF leader_id(n) > 0 \/ irounds[n] + 1 = MaxRounds THEN "returned" ELSE "polling"

\* one poll of the loop of initialize: tick, then look at leader_id
initialize_poll(n) ==
    IF leader_id(n) > 0 THEN "returned"
    ELSE IF irounds[n] + 1 = MaxRounds THEN "panicked"      \* panic!("No leader elected")
    ELSE "polling"                                          \* sleep, then poll again

initialize(n) ==
    /\ ipc[n] = "polling"
    /\ ~poisoned[n]
    /\ ipc' = [ipc EXCEPT ![n] = initialize_poll(n)]
    /\ iseen' = [iseen EXCEPT ![n] = IF ipc'[n] = "returned" THEN leader_id(n) ELSE 0]
    /\ irounds' = [irounds EXCEPT ![n] = IF leader_id(n) > 0 THEN @ ELSE @ + 1]
    /\ UNCHANGED raftVars
    /\ UNCHANGED propVars
    /\ UNCHANGED readVars
    /\ UNCHANGED routerVars
    /\ UNCHANGED <<fuseVars, metaVars, lockVars, clientVars>>

\* a node starting up while clients ask whether the filesystem is ready
NextReady ==
    \/ \E n \in Nodes : Elect(n)
    \/ StepDown
    \/ \E n \in Nodes : initialize(n)
    \/ \E inode \in Inodes, parent \in Inodes, decodes \in BOOLEAN,
          hs \in [Groups -> HandshakeResults] :
            request_router("FilesystemReadyRequest", inode, parent, decodes, hs, "ok", "ok")

SpecReady == Init /\ [][NextReady]_vars


(***************************************************************************)
(* FleetFUSE: the driver callbacks (src/src/fleetfs/fuse.rs)               *)
(***************************************************************************)

\* the callbacks whose body is warn!(..); Err(libc::ENOSYS)
Unimplemented ==
    {"chmod", "chown", "utimens", "readlink", "mknod", "mkdir", "rmdir", "symlink",
     "rename", "link", "fsync", "fsyncdir", "statfs", "setxattr", "getxattr", "listxattr",
     "removexattr", "access"}

\* the callbacks that answer Ok without asking the server
NoOps == {"init", "destroy", "open", "flush", "release", "opendir", "releasedir"}

\* the callbacks that send one request and map its failure to EIO
ClientWrites == {"truncate", "unlink", "write", "create"}

Callbacks == Unimplemented \cup NoOps \cup ClientWrites \cup {"getattr", "read", "readdir"}

\* what the server does with a request: answers, answers that the file does
\* not exist, or the request fails
ServerResults == {"ok", "missing", "error"}

Returned(cb, ret, sent) == [cb |-> cb, ret |-> ret, sent |-> sent]

\* a driver that would forward every callback to the server
FleetFUSE_forwarding(cb, isroot, sres) ==
    Returned(cb, IF sres = "error" THEN "EIO" ELSE "Ok", 1)

\* the callback cb of FleetFUSE; isroot: the path is "/"
FleetFUSE(cb, isroot, sres) ==
    IF cb \in Unimplemented THEN Returned(cb, "ENOSYS", 0)
    ELSE IF cb \in NoOps THEN Returned(cb, "Ok", 0)
    ELSE IF cb = "getattr" THEN
        IF isroot THEN Returned(cb, "Ok", 0)
        ELSE Returned(cb, IF sres = "error" THEN "EIO"
                          ELSE IF sres = "missing" THEN "ENOENT" ELSE "Ok", 1)
    ELSE IF cb = "read" THEN
        IF isroot THEN Returned(cb, "Panic", 0)                \* assert_ne!(path, "/")
        ELSE Returned(cb, IF sres = "error" THEN "EIO" ELSE "Ok", 1)
    ELSE IF cb = "readdir" THEN
        IF ~isroot THEN Returned(cb, "Panic", 0)               \* assert_eq!(path, "/")
        ELSE Returned(cb, IF sres = "error" THEN "Panic" ELSE "Ok", 1)   \* .send().unwrap()
    ELSE Returned(cb, IF sres = "error" THEN "EIO" ELSE "Ok", 1)

fuse_callback(cb, isroot, sres) ==
    /\ fcalls < MaxCallbacks
    /\ flast' = FleetFUSE(cb, isroot, sres)
    /\ fsent' = fsent + flast'.sent
    /\ fcalls' = fcalls + 1
    /\ UNCHANGED <<raftVars, propVars, readVars, routerVars, initVars, metaVars, lockVars,
                   clientVars>>

NextFuse ==
    \E cb \in Callbacks, isroot \in BOOLEAN, sres \in ServerResults :
        fuse_callback(cb, isroot, sres)

SpecFuse == Init /\ [][NextFuse]_vars

(***************************************************************************)
(* MetadataStorage (src/src/metadata_storage.rs)                           *)
(***************************************************************************)

BLOCK_SIZE == 2      \* data_storage::BLOCK_SIZE, in the units of Lengths
Ids == {1}           \* user and group ids
Options(S) == {None} \cup {Some(x) : x \in S}

get_length(path) == file_lengths[path]
get_uid(path) == uids[path]
get_gid(path) == gids[path]

Operation(op, path, new_path, arg, outcome) ==
    [op |-> op, path |-> path, new_path |-> new_path, arg |-> arg, length |-> 0,
     outcome |-> outcome]

\* every operation: one more operation made, the driver and the group untouched
Operated(m) ==
    /\ mops < MaxOps
    /\ mops' = mops + 1
    /\ mlast' = m
    /\ UNCHANGED <<raftVars, propVars, readVars, routerVars, initVars, fuseVars, lockVars,
                   clientVars>>

chown(path, uid, gid) ==
    /\ Operated(Operation("chown", path, 0, 0, "Ok"))
    /\ uids' = IF uid # None THEN [uids EXCEPT ![path] = uid] ELSE uids
    /\ gids' = IF gid # None THEN [gids EXCEPT ![path] = gid] ELSE gids
    /\ UNCHANGED file_lengths

hardlink(path, new_path) ==
    /\ Operated(Operation("hardlink", path, new_path, 0, "Ok"))
    /\ file_lengths' = IF file_lengths[path] # None
                       THEN [file_lengths EXCEPT ![new_path] = file_lengths[path]]
                       ELSE file_lengths
    /\ UNCHANGED <<uids, gids>>

mkdir(path) ==
    /\ Operated(Operation("mkdir", path, 0, 0, "Ok"))
    /\ file_lengths' = [file_lengths EXCEPT ![path] = Some(BLOCK_SIZE)]
    /\ UNCHANGED <<uids, gids>>

\* a rename that would leave the length of path in place
rename_keeping_source(path, new_path) ==
    /\ Operated(Operation("rename", path, new_path, 0, "Ok"))
    /\ file_lengths' = IF file_lengths[path] # None
                       THEN [file_lengths EXCEPT ![new_path] = file_lengths[path]]
                       ELSE file_lengths
    /\ UNCHANGED <<uids, gids>>

rename(path, new_path) ==
    /\ Operated(Operation("rename", path, new_path, 0, "Ok"))
    /\ file_lengths' = IF file_lengths[path] # None
                       THEN [[file_lengths EXCEPT ![path] = None]
                                EXCEPT ![new_path] = file_lengths[path]]
                       ELSE file_lengths
    /\ UNCHANGED <<uids, gids>>

\* a truncate that would never shorten a file
truncate_growing(path, new_length) ==
    /\ Operated(Operation("truncate", path, 0, new_length, "Ok"))
    /\ file_lengths' = [file_lengths EXCEPT
                          ![path] = IF @ # None /\ @[1] > new_length THEN @
                                     ELSE Some(new_length)]
    /\ UNCHANGED <<uids, gids>>

truncate(path, new_length) ==
    /\ Operated(Operation("truncate", path, 0, new_length, "Ok"))
    /\ file_lengths' = [file_lengths EXCEPT ![path] = Some(new_length)]
    /\ UNCHANGED <<uids, gids>>

unlink(path) ==
    /\ Operated(Operation("unlink", path, 0, 0, "Ok"))
    /\ file_lengths' = [file_lengths EXCEPT ![path] = None]
    /\ UNCHANGED <<uids, gids>>

rmdir(path) ==
    /\ Operated(Operation("rmdir", path, 0, 0, "Ok"))
    /\ file_lengths' = [file_lengths EXCEPT ![path] = None]
    /\ UNCHANGED <<uids, gids>>

\* u64::from(length) + offset, with MaxLength standing for u64::MAX: an
\* overflowing sum panics in a build with overflow checks and wraps in one without
write(path, offset, length, checked) ==
    LET current_length == IF file_lengths[path] = None THEN 0 ELSE file_lengths[path][1]
        sum == length + offset
        overflow == sum > MaxLength
    IN  IF overflow /\ checked
        THEN /\ Operated([Operation("write", path, 0, offset, "Panic") EXCEPT !.length = length])
             /\ UNCHANGED <<file_lengths, uids, gids>>
        ELSE /\ Operated([Operation("write", path, 0, offset, "Ok") EXCEPT !.length = length])
             /\ file_lengths' = [file_lengths EXCEPT
                                   ![path] = Some(Max(current_length, sum % (MaxLength + 1)))]
             /\ UNCHANGED <<uids, gids>>

NextMeta ==
    \/ \E path \in Paths, uid \in Options(Ids), gid \in Options(Ids) : chown(path, uid, gid)
    \/ \E path \in Paths, new_path \in Paths : hardlink(path, new_path)
    \/ \E path \in Paths : mkdir(path)
    \/ \E path \in Paths, new_path \in Paths : rename(path, new_path)
    \/ \E path \in Paths, new_length \in Lengths : truncate(path, new_length)
    \/ \E path \in Paths : unlink(path)
    \/ \E path \in Paths : rmdir(path)
    \/ \E path \in Paths, offset \in Lengths, length \in Lengths, checked \in BOOLEAN :
          write(path, offset, length, checked)

SpecMeta == Init /\ [][NextMeta]_vars

(***************************************************************************)
(* RaftManager statement by statement: the threads of one node, the        *)
(* raft_node mutex and the pending_responses mutex                         *)
(***************************************************************************)

Others == <<raftVars, propVars, readVars, routerVars, initVars, fuseVars, metaVars, clientVars>>

\* where each call starts
FirstStatement ==
    [background_tick |-> "tick_lock", apply_messages |-> "step_lock", propose |-> "propose_lock",
     initialize |-> "initialize_lock"]

\* the statements that are self.raft_node.lock().unwrap(), and what follows them
RaftNodeLocks ==
    [tick_lock |-> "tick", queue_lock |-> "has_ready", step_lock |-> "step",
     propose_lock |-> "raft_propose", initialize_lock |-> "initialize_tick"]

\* the statements that are self.pending_responses.lock().unwrap(), and what follows them
PendingLocks == [entry_lock |-> "apply_entry", insert_lock |-> "insert"]

\* the statements of _process_raft_queue between has_ready and advance
PassStatements == {"persist", "committed_entries", "entry_lock", "apply_entry", "advance"}

\* a thread panics: the mutexes it holds are released and poisoned
Poisoned(t) ==
    [raft_node |-> IF locks.raft_node = t THEN 0 ELSE locks.raft_node,
     pending_responses |-> IF locks.pending_responses = t THEN 0 ELSE locks.pending_responses,
     raft_node_poisoned |-> locks.raft_node_poisoned \/ locks.raft_node = t,
     pending_responses_poisoned |->
         locks.pending_responses_poisoned \/ locks.pending_responses = t]

\* a guard of t goes out of scope
Unlocked(holder, t) == IF holder = t THEN 0 ELSE holder

\* a call starts on an idle thread
Start(t, op) ==
    /\ thread[t].pc \in {"idle", "panicked"}
    /\ started < MaxCalls
    /\ started' = started + 1
    /\ thread' = [thread EXCEPT ![t] = [Idle EXCEPT !.pc = FirstStatement[op], !.op = op]]
    /\ UNCHANGED <<node, locks>>
    /\ UNCHANGED Others

\* let mut raft_node = self.raft_node.lock().unwrap();
lock_raft_node(t) ==
    /\ thread[t].pc \in DOMAIN RaftNodeLocks
    /\ locks.raft_node = 0
    /\ IF locks.raft_node_poisoned
       THEN /\ thread' = [thread EXCEPT ![t].pc = "panicked"]
            /\ locks' = Poisoned(t)
       ELSE /\ thread' = [thread EXCEPT ![t].pc = RaftNodeLocks[thread[t].pc]]
            /\ locks' = [locks EXCEPT !.raft_node = t]
    /\ UNCHANGED <<node, started>>
    /\ UNCHANGED Others

\* let mut pending_responses = self.pending_responses.lock().unwrap();
lock_pending_responses(t) ==
    /\ thread[t].pc \in DOMAIN PendingLocks
    /\ locks.pending_responses = 0
    /\ IF locks.pending_responses_poisoned
       THEN /\ thread' = [thread EXCEPT ![t].pc = "panicked"]
            /\ locks' = Poisoned(t)
       ELSE /\ thread' = [thread EXCEPT ![t].pc = PendingLocks[thread[t].pc]]
            /\ locks' = [locks EXCEPT !.pending_responses = t]
    /\ UNCHANGED <<node, started>>
    /\ UNCHANGED Others

\* background_tick: raft_node.tick() in its own block; heartbeat: the tick
\* leaves a message to send
tick(t, heartbeat) ==
    /\ thread[t].pc = "tick"
    /\ node' = [node EXCEPT !.out = IF heartbeat THEN 1 ELSE @]
    /\ locks' = [locks EXCEPT !.raft_node = Unlocked(@, t)]
    /\ thread' = [thread EXCEPT ![t].pc = "queue_lock"]
    /\ UNCHANGED started
    /\ UNCHANGED Others

\* raft_node.has_ready() on the node
HasReady == node.stable < Len(node.log) \/ node.applied < node.commit \/ node.out > 0

\* the holder of the raft_node mutex after the has_ready check found no ready
\* (return Ok(vec![]) drops the guard)
guard_after_return(t) == Unlocked(locks.raft_node, t)

\* a ready-loop that would drop the raft_node guard once has_ready was checked
guard_dropped_after_has_ready(t) == Unlocked(locks.raft_node, t)

\* the holder of the raft_node mutex after the has_ready check found a ready:
\* the guard lives until the function returns
guard_after_has_ready(t) == locks.raft_node

\* a pass that would apply the committed entries before the writes
after_ready_applying_first == "committed_entries"

\* let mut ready = raft_node.ready(); is followed by the writes to the log store
after_ready == "persist"

\* if !raft_node.has_ready() { return Ok(vec![]); }  let mut ready = raft_node.ready();
has_ready(t) ==
    /\ thread[t].pc = "has_ready"
    /\ IF ~HasReady
       THEN /\ thread' = [thread EXCEPT ![t].pc = "send", ![t].messages = 0]
            /\ locks' = [locks EXCEPT !.raft_node = guard_after_return(t)]
       ELSE /\ thread' = [thread EXCEPT
                            ![t].pc = after_ready,
                            ![t].entry = node.applied + 1,
                            ![t].ready = [entries |-> Len(node.log),
                                          first |-> node.applied + 1,
                                          last |-> node.commit]]
            /\ locks' = [locks EXCEPT !.raft_node = guard_after_has_ready(t)]
    /\ UNCHANGED <<node, started>>
    /\ UNCHANGED Others

\* apply_snapshot, append(ready.entries()), set_hardstate
persist(t) ==
    /\ thread[t].pc = "persist"
    /\ node' = [node EXCEPT !.stable = Max(@, thread[t].ready.entries)]
    /\ thread' = [thread EXCEPT ![t].pc = "committed_entries",
                                ![t].events = Append(@, "persist")]
    /\ UNCHANGED <<locks, started>>
    /\ UNCHANGED Others

\* for entry in committed_entries { if entry.data.is_empty() { continue; } .. }
next_entry(t) ==
    /\ thread[t].pc = "committed_entries"
    /\ LET i == thread[t].entry
       IN  thread' = [thread EXCEPT
                         ![t].pc = IF i > thread[t].ready.last THEN "advance"
                                   ELSE IF node.log[i] = 0 THEN "committed_entries"
                                   ELSE "entry_lock",
                         ![t].entry = IF i <= thread[t].ready.last /\ node.log[i] = 0
                                      THEN i + 1 ELSE i]
    /\ UNCHANGED <<node, locks, started>>
    /\ UNCHANGED Others

\* a loop body whose pending_responses guard would outlive it
entry_guard_kept(t) == locks.pending_responses

\* the holder of the pending_responses mutex once the loop body ends
entry_guard_after_body(t) == Unlocked(locks.pending_responses, t)

\* pending_responses.remove(&entry.index); handler(..); sender.send(builder).ok().unwrap()
apply_entry(t) ==
    /\ thread[t].pc = "apply_entry"
    /\ LET i == thread[t].entry
       IN  /\ node' = [node EXCEPT !.table = @ \ {i}, !.handled = Append(@, i)]
           /\ IF i \in node.table /\ i \in node.dropped
              THEN /\ thread' = [thread EXCEPT ![t].pc = "panicked",
                                               ![t].events = Append(@, "apply")]
                   /\ locks' = Poisoned(t)
              ELSE /\ thread' = [thread EXCEPT ![t].pc = "committed_entries",
                                               ![t].entry = i + 1,
                                               ![t].events = Append(@, "apply")]
                   /\ locks' = [locks EXCEPT !.pending_responses = entry_guard_after_body(t)]
    /\ UNCHANGED started
    /\ UNCHANGED Others

\* let messages = ready.messages.drain(..).collect(); raft_node.advance(ready); Ok(messages)
drain_and_advance(t) ==
    /\ thread[t].pc = "advance"
    /\ node' = [node EXCEPT !.applied = Max(@, thread[t].ready.last), !.out = 0]
    /\ thread' = [thread EXCEPT ![t].pc = "send", ![t].messages = node.out,
                                ![t].events = Append(@, "advance")]
    /\ locks' = [locks EXCEPT !.raft_node = Unlocked(@, t)]
    /\ UNCHANGED started
    /\ UNCHANGED Others

\* process_raft_queue: self.send_outgoing_raft_messages(messages)
send_outgoing_raft_messages(t) ==
    /\ thread[t].pc = "send"
    /\ node' = [node EXCEPT !.sent = @ + thread[t].messages]
    /\ thread' = [thread EXCEPT ![t].pc = "idle",
                                ![t].events = IF thread[t].messages > 0
                                              THEN Append(@, "send") ELSE @]
    /\ UNCHANGED <<locks, started>>
    /\ UNCHANGED Others

\* an apply_messages that would go on into the ready-loop
apply_messages_processes_queue == "queue_lock"

\* where apply_messages goes after stepping the messages: Ok(()), it returns
apply_messages_returns == "idle"

\* what a message does when it is stepped
StepResults == {"ok", "rejected", "misaddressed"}

\* for message in messages { assert_eq!(message.to, self.node_id); raft_node.step(..)?; }
step(t, result) ==
    /\ thread[t].pc = "step"
    /\ IF result = "misaddressed"
       THEN /\ thread' = [thread EXCEPT ![t].pc = "panicked"]
            /\ locks' = Poisoned(t)
            /\ node' = node
       ELSE /\ thread' = [thread EXCEPT
                            ![t].pc = IF result = "ok" THEN apply_messages_returns ELSE "idle"]
            /\ locks' = [locks EXCEPT !.raft_node = Unlocked(@, t)]
            /\ node' = IF result = "ok"
                       THEN [node EXCEPT !.commit = Len(node.log), !.out = 1]
                       ELSE node
    /\ UNCHANGED started
    /\ UNCHANGED Others

\* _propose: raft_node.propose(vec![], data)?; Ok(raft_node.raft.raft_log.last_index())
raft_propose(t, accepted) ==
    /\ thread[t].pc = "raft_propose"
    /\ accepted => Len(node.log) < MaxEntries
    /\ IF accepted
       THEN /\ node' = [node EXCEPT !.log = Append(@, 1), !.out = 1]
            /\ thread' = [thread EXCEPT ![t].pc = "insert_lock", ![t].index = Len(node.log) + 1]
       ELSE /\ node' = node
            /\ thread' = [thread EXCEPT ![t].pc = "panicked"]   \* self._propose(..).unwrap()
    /\ locks' = [locks EXCEPT !.raft_node = Unlocked(@, t)]
    /\ UNCHANGED started
    /\ UNCHANGED Others

\* a propose that would keep the pending_responses guard while it waits
insert_guard_kept(t) == locks.pending_responses

\* the holder of the pending_responses mutex once the block of the insert ends
insert_guard_after_block(t) == Unlocked(locks.pending_responses, t)

\* { let mut pending_responses = ..; pending_responses.insert(index, (builder, sender)); }
insert(t) ==
    /\ thread[t].pc = "insert"
    /\ node' = [node EXCEPT !.table = @ \cup {thread[t].index}]
    /\ locks' = [locks EXCEPT !.pending_responses = insert_guard_after_block(t)]
    /\ thread' = [thread EXCEPT ![t].pc = "waiting"]
    /\ UNCHANGED started
    /\ UNCHANGED Others

\* the caller of propose stops waiting on the receiver: the response has come,
\* or the caller drops the future while its pair is still in the table
resolve(t) ==
    /\ thread[t].pc = "waiting"
    /\ node' = [node EXCEPT !.dropped = IF thread[t].index \in node.table
                                        THEN @ \cup {thread[t].index} ELSE @]
    /\ thread' = [thread EXCEPT ![t].pc = "idle"]
    /\ UNCHANGED <<locks, started>>
    /\ UNCHANGED Others

Operations == {"background_tick", "apply_messages", "propose"}

NextLocks ==
    \E t \in Threads :
        \/ \E op \in Operations : Start(t, op)
        \/ lock_raft_node(t)
        \/ lock_pending_responses(t)
        \/ \E heartbeat \in BOOLEAN : tick(t, heartbeat)
        \/ has_ready(t)
        \/ persist(t)
        \/ next_entry(t)
        \/ apply_entry(t)
        \/ drain_and_advance(t)
        \/ send_outgoing_raft_messages(t)
        \/ \E result \in StepResults : step(t, result)
        \/ \E accepted \in BOOLEAN : raft_propose(t, accepted)
        \/ insert(t)
        \/ resolve(t)

SpecLocks == Init /\ [][NextLocks]_vars

(***************************************************************************)
(* RaftManager::initialize statement by statement, next to the ticker and  *)
(* the message handler of the node                                         *)
(***************************************************************************)

\* self.node_id of the node the threads run on
node_id == FirstLeader

\* the polls the loop of a call of initialize has made
Polls(t) == Count(thread[t].events, "tick")

\* an initialize whose guard would outlive the block of the poll
guard_kept_after_poll(t) == locks.raft_node

\* the holder of the raft_node mutex when the block of the poll ends
guard_after_poll(t) == Unlocked(locks.raft_node, t)

\* { let mut raft_node = ..; raft_node.tick(); if raft_node.raft.leader_id > 0 { return; } }
initialize_tick(t, heartbeat) ==
    /\ thread[t].pc = "initialize_tick"
    /\ node' = [node EXCEPT !.out = IF heartbeat THEN 1 ELSE @]
    /\ IF leader_id(node_id) > 0
       THEN /\ thread' = [thread EXCEPT ![t].pc = "idle",
                                        ![t].events = @ \o <<"tick", "leader">>]
            /\ locks' = [locks EXCEPT !.raft_node = Unlocked(@, t)]
       ELSE /\ thread' = [thread EXCEPT ![t].pc = "sleep",
                                        ![t].events = Append(@, "tick")]
            /\ locks' = [locks EXCEPT !.raft_node = guard_after_poll(t)]
    /\ UNCHANGED started
    /\ UNCHANGED Others

\* std::thread::sleep(100 ms), then the next round of for _ in 0..100, or
\* panic!("No leader elected") after the last one
initialize_sleep(t) ==
    /\ thread[t].pc = "sleep"
    /\ IF Polls(t) >= MaxRounds
       THEN /\ thread' = [thread EXCEPT ![t].pc = "panicked",
                                        ![t].events = Append(@, "No leader elected")]
            /\ locks' = Poisoned(t)
       ELSE /\ thread' = [thread EXCEPT ![t].pc = "initialize_lock"]
            /\ locks' = locks
    /\ UNCHANGED <<node, started>>
    /\ UNCHANGED Others

\* raft.leader_id of the node changes inside raft_node.step and raft_node.tick,
\* which run under the raft_node mutex
leader_elected(n) == locks.raft_node = 0 /\ Elect(n)
leader_lost == locks.raft_node = 0 /\ StepDown

\* the thread that starts the node calls initialize; the other threads run the
\* ticker and the message handler
NextInit ==
    \/ Start(1, "initialize")
    \/ \E t \in Threads \ {1}, op \in {"background_tick", "apply_messages"} : Start(t, op)
    \/ \E n \in Nodes : leader_elected(n)
    \/ leader_lost
    \/ \E t \in Threads :
          \/ lock_raft_node(t)
          \/ \E heartbeat \in BOOLEAN : initialize_tick(t, heartbeat)
          \/ initialize_sleep(t)
          \/ \E heartbeat \in BOOLEAN : tick(t, heartbeat)
          \/ has_ready(t)
          \/ persist(t)
          \/ next_entry(t)
          \/ drain_and_advance(t)
          \/ send_outgoing_raft_messages(t)
          \/ \E result \in StepResults : step(t, result)

\* every thread that can take a step is scheduled
SpecInit ==
    /\ Init
    /\ [][NextInit]_vars
    /\ \A t \in Threads :
          /\ WF_vars(lock_raft_node(t))
          /\ WF_vars(\E heartbeat \in BOOLEAN : initialize_tick(t, heartbeat))
          /\ WF_vars(initialize_sleep(t))
          /\ WF_vars(\E heartbeat \in BOOLEAN : tick(t, heartbeat))
          /\ WF_vars(has_ready(t))
          /\ WF_vars(persist(t))
          /\ WF_vars(next_entry(t))
          /\ WF_vars(drain_and_advance(t))
          /\ WF_vars(send_outgoing_raft_messages(t))
          /\ WF_vars(\E result \in StepResults : step(t, result))

(***************************************************************************)
(* NodeClient::read statement by statement: the driver's threads and the   *)
(* server_v2_connection mutex                                              *)
(***************************************************************************)

Rest == <<raftVars, propVars, readVars, routerVars, initVars, fuseVars, metaVars, lockVars>>

\* what a connect, a send or a receive on a TCP stream comes to
IoResults == {"Ok", "Err"}

\* a read whose guard would be dropped once the stream is taken out
connection_guard_dropped_after_take(t) == Unlocked(client.lock, t)

\* the holder of the connection mutex after locked.take(): the guard `locked`
\* lives until read returns
connection_guard_after_take(t) == client.lock

\* read returns Err through `?`: the guard goes out of scope, and the stream,
\* a local that was not stored back, is dropped, which closes it
Return_Err(t) ==
    /\ reader' = [reader EXCEPT ![t] = [pc |-> "idle", stream |-> 0, result |-> "Err"]]
    /\ client' = [client EXCEPT
                     !.lock = Unlocked(@, t),
                     !.closed = IF reader[t].stream = 0 THEN @ ELSE @ \cup {reader[t].stream}]

\* a thread calls read (path is not "/")
StartRead_v2(t) ==
    /\ reader[t].pc = "idle"
    /\ client.reads < MaxReads
    /\ reader' = [reader EXCEPT ![t] = [NotReading EXCEPT !.pc = "lock"]]
    /\ client' = [client EXCEPT !.reads = @ + 1]
    /\ UNCHANGED Rest

\* let mut locked = self.server_v2_connection.lock().expect(..);
lock_connection(t) ==
    /\ reader[t].pc = "lock"
    /\ client.lock = 0
    /\ client' = [client EXCEPT !.lock = t]
    /\ reader' = [reader EXCEPT ![t].pc = "connect"]
    /\ UNCHANGED Rest

\* if locked.is_none() { let stream = TcpStream::connect(..)?; locked.replace(stream); }
\* let mut stream = locked.take().expect(..);
connect_and_take(t, io) ==
    /\ reader[t].pc = "connect"
    /\ IF client.server_v2_connection # 0
       THEN /\ reader' = [reader EXCEPT ![t].pc = "send",
                                        ![t].stream = client.server_v2_connection]
            /\ client' = [client EXCEPT !.server_v2_connection = 0,
                                        !.lock = connection_guard_after_take(t)]
       ELSE IF io = "Ok"
            THEN /\ reader' = [reader EXCEPT ![t].pc = "send",
                                             ![t].stream = client.opened + 1]
                 /\ client' = [client EXCEPT !.opened = @ + 1,
                                             !.lock = connection_guard_after_take(t)]
            ELSE Return_Err(t)
    /\ UNCHANGED Rest

\* stream.write_all(&request)?;
send(t, io) ==
    /\ reader[t].pc = "send"
    /\ IF io = "Ok"
       THEN /\ reader' = [reader EXCEPT ![t].pc = "receive"]
            /\ client' = [client EXCEPT
                             !.wire = Append(@, <<reader[t].stream, t, "request">>)]
       ELSE Return_Err(t)
    /\ UNCHANGED Rest

\* read_u32()?; read_exact(&mut buffer)?; locked.replace(stream); return Ok(buffer);
receive(t, io) ==
    /\ reader[t].pc = "receive"
    /\ IF io = "Ok"
       THEN /\ reader' = [reader EXCEPT ![t] = [pc |-> "idle", stream |-> 0, result |-> "Ok"]]
            /\ client' = [client EXCEPT
                             !.wire = Append(@, <<reader[t].stream, t, "response">>),
                             !.server_v2_connection = reader[t].stream,
                             !.lock = Unlocked(@, t)]
       ELSE Return_Err(t)
    /\ UNCHANGED Rest

NextClient ==
    \/ \E t \in Readers : StartRead_v2(t)
    \/ \E t \in Readers : lock_connection(t)
    \/ \E t \in Readers, io \in IoResults : connect_and_take(t, io)
    \/ \E t \in Readers, io \in IoResults : send(t, io)
    \/ \E t \in Readers, io \in IoResults : receive(t, io)

SpecClient == Init /\ [][NextClient]_vars

(***************************************************************************)
(* Claims                                                                  *)
(***************************************************************************)

\* r's own entry stands at the index _propose returned for r, on the node it was proposed on
OwnIndex(r) ==
    /\ pnode[r] # 0
    /\ pidx[r] >= 1
    /\ pidx[r] <= Len(log[pnode[r]])
    /\ log[pnode[r]][pidx[r]] = r

\* C1: a read that starts after the response of a write was delivered reads a
\* state in which that write is applied, on whichever node it is served.
C1_ReadAfterWrite == rpc = "served" => rmiss = {}

\* C2: when the router invokes the storage read, the applied index of the
\* serving node is at least the index the leader reported for this read.
C2_ReadIsFresh == rpc = "served" => rAt >= rL

C2_Witness == rpc = "served" /\ rL >= 2 /\ rnode # leader /\ leader # 0 /\ rAt >= rL

\* C3: the entry at the index _propose returned is never applied before the
\* proposer has inserted its (builder, sender) pair at that index.
C3_RaceClosed ==
    \A r \in Requests : (pc[r] = "proposed" /\ OwnIndex(r)) => applied[pnode[r]] < pidx[r]

\* C4: a caller whose request has been applied on the node it proposed on
\* eventually gets its response, as long as the ticker runs.
C4_DeliveryLive ==
    \A r \in Requests :
        (pc[r] \in {"proposed", "await"} /\ IndexOf(r, pnode[r]) # 0
            /\ applied[pnode[r]] >= IndexOf(r, pnode[r]))
        ~> (pc[r] = "done")

\* C5: the index _propose returned for r is the index r occupies once it is
\* committed, and the builder delivered to r's caller was filled by r's handler.
C5_OwnResponse ==
    \A r \in Requests :
        /\ \A n \in Nodes :
              (pnode[r] # 0 /\ IndexOf(r, n) # 0 /\ IndexOf(r, n) <= commit[n])
                  => pidx[r] = IndexOf(r, n)
        /\ pc[r] = "done" => resp[r] = r

\* C6: a write whose response was delivered before another write was proposed
\* stands at a strictly smaller log index than that other write.
C6_WriteOrder ==
    \A r2 \in Requests : \A r1 \in before[r2] : \A n \in Nodes :
        IndexOf(r2, n) # 0 => (IndexOf(r1, n) # 0 /\ IndexOf(r1, n) < IndexOf(r2, n))

\* the requests node n has handled, in the order it handled them
Handled(n) == [k \in 1..Len(store[n]) |-> store[n][k][2]]

IsPrefix(s, t) == Len(s) <= Len(t) /\ SubSeq(t, 1, Len(s)) = s

\* C7: every node invokes the handler for the committed non-empty entries in
\* strictly increasing index order, once per index, so that the nodes handle
\* the same sequence of requests.
C7_ApplyOrder ==
    /\ \A n \in Nodes :
          /\ \A k \in 1..Len(store[n]) :
                /\ store[n][k][1] <= Len(log[n])
                /\ store[n][k][2] # 0
                /\ log[n][store[n][k][1]] = store[n][k][2]
          /\ \A k \in 1..Len(store[n]) : \A j \in 1..Len(store[n]) :
                k < j => store[n][k][1] < store[n][j][1]
          /\ \A i \in 1..applied[n] :
                log[n][i] # 0 => \E k \in 1..Len(store[n]) : store[n][k][1] = i
    /\ \A n \in Nodes : \A m \in Nodes :
          IsPrefix(Handled(n), Handled(m)) \/ IsPrefix(Handled(m), Handled(n))

C7_Witness ==
    /\ elections = 2
    /\ \A n \in Nodes : Len(store[n]) = 2 /\ applied[n] = Len(log[n])

\* C8: a request that changes storage reaches the storage handler only from
\* the applier, for an entry committed in the log of exactly one group; the
\* router makes no such storage call itself.
C8_OnlyApplierMutates ==
    /\ \A k \in 1..Len(last.calls) :
          last.calls[k].mutating =>
              /\ last.calls[k].by = "applier"
              /\ last.proposals = <<last.calls[k].group>>
              /\ glog[last.calls[k].group] # <<>>
              /\ glog[last.calls[k].group][Len(glog[last.calls[k].group])] = routed
              /\ \A g \in Groups \ {last.calls[k].group} :
                    \A i \in 1..Len(glog[g]) : glog[g][i] # routed
    /\ (last.type \in Mutating /\ last.outcome # "Error")
          => (Len(last.proposals) = 1 /\ Len(last.calls) = 1 /\ last.calls[1].mutating)

C8_Witness ==
    /\ routed = 2
    /\ last.type = "CreateLinkRequest"
    /\ last.inode # last.parent
    /\ last.proposals = <<lookup_by_inode(last.parent)>>
    /\ lookup_by_inode(last.parent) # lookup_by_inode(last.inode)
    /\ Len(glog[0]) = 1 /\ Len(glog[1]) = 1

\* the local read variants
ReadVariants == {"ReadRequest", "ReadRawRequest", "LookupRequest", "ReaddirRequest",
                 "GetattrRequest", "GetXattrRequest", "ListXattrsRequest"}

\* the group that owns the inode a local read is about
OwningGroup(rq) ==
    lookup_by_inode(IF rq.type = "LookupRequest" THEN rq.parent ELSE rq.inode)

FailedHandshakes == {k \in 1..Len(last.handshakes) : last.handshakes[k].result # "ok"}

\* C11: every local read variant completes the freshness handshake on the
\* owning group before the storage read, and reads from that same group.
C11_ReadsHandshake ==
    \A k \in 1..Len(last.calls) :
        (last.type \in ReadVariants /\ last.calls[k].by = "router")
            => /\ last.calls[k].group = OwningGroup(last)
               /\ last.handshakes =
                     <<[group |-> OwningGroup(last), call |-> "sync_with_leader", result |-> "ok"]>>

\* C12: a read whose handshake fails makes no storage call and is answered
\* with an ErrorResponse carrying the handshake's error code; the handshake is
\* attempted once per read request.
C12_HandshakeFailure ==
    last.type \in ReadVariants =>
        /\ Len(last.handshakes) <= 1
        /\ FailedHandshakes # {} =>
              /\ last.calls = <<>>
              /\ last.proposals = <<>>
              /\ last.response.returned = 1
              /\ last.response.tag = "ErrorResponse"
              /\ last.response.code = last.handshakes[1].result
              /\ last.response.code \in {"LeaderUnreachable", "SyncTimeout"}

C12_Witness ==
    /\ routed = 2
    /\ last.type = "GetattrRequest"
    /\ last.decodes
    /\ Len(last.handshakes) = 1
    /\ last.response.code = "SyncTimeout"

\* C13: a request of any variant whose payload cannot be decoded is answered
\* with ErrorResponse(bad-request) and causes no proposal, no handshake and no
\* storage call.
C13_BadRequest ==
    (routed >= 1 /\ ~last.decodes) =>
        /\ last.response.returned = 1
        /\ last.response.tag = "ErrorResponse"
        /\ last.response.code = "BadRequest"
        /\ last.proposals = <<>>
        /\ last.handshakes = <<>>
        /\ last.calls = <<>>

\* C14: the router returns a response for every request whose discriminant is
\* not NONE; it never aborts.
C14_NeverAborts == routed >= 1 => last.outcome # "Panic"

\* C15: request_router returns one response per request, finalized once: a
\* Full response untouched, a Partial one finalized by the router, an error as
\* a fresh buffer tagged ErrorResponse with the error code.
C15_FinalizedOnce ==
    routed >= 1 =>
        /\ last.response.returned = 1
        /\ Len(last.response.finalized) = 1
        /\ last.outcome = "Full" =>
              (last.response.finalized = <<"collaborator">> /\ last.response.builder = "in-flight")
        /\ last.outcome = "Partial" =>
              (last.response.finalized = <<"router">> /\ last.response.builder = "in-flight"
                  /\ last.response.tag = last.tag)
        /\ last.outcome = "Error" =>
              (last.response.finalized = <<"router">> /\ last.response.builder = "fresh"
                  /\ last.response.tag = "ErrorResponse" /\ last.response.code = last.code)

\* the write variants routed by their inode, and those routed by their parent
WritesByInode == {"WriteRequest", "ChmodRequest", "ChownRequest", "UtimensRequest",
                  "TruncateRequest", "FsyncRequest", "SetXattrRequest", "RemoveXattrRequest",
                  "LockRequest", "UnlockRequest", "HardlinkIncrementRequest",
                  "HardlinkRollbackRequest", "DecrementInodeRequest", "UpdateParentRequest",
                  "UpdateMetadataChangedTimeRequest"}

WritesByParent == {"RemoveLinkRequest", "ReplaceLinkRequest", "CreateLinkRequest"}

\* C16: a single-group write is proposed once, to lookup_by_inode of its inode
\* (of its parent for the link requests); create-inode is proposed once, to the
\* least loaded group.
C16_ProposedOnce ==
    [][(routed' = routed + 1 /\ last'.decodes) =>
          /\ last'.type \in WritesByInode =>
                last'.proposals = <<lookup_by_inode(last'.inode)>>
          /\ last'.type \in WritesByParent =>
                last'.proposals = <<lookup_by_inode(last'.parent)>>
          /\ last'.type = "CreateInodeRequest" =>
                /\ Len(last'.proposals) = 1
                /\ \A h \in Groups :
                      \/ Len(glog[last'.proposals[1]]) < Len(glog[h])
                      \/ /\ Len(glog[last'.proposals[1]]) = Len(glog[h])
                         /\ last'.proposals[1] <= h]_vars

C16_Witness ==
    /\ routed = 2
    /\ last.type = "CreateInodeRequest"
    /\ last.proposals = <<1>>
    /\ Len(glog[0]) = 1
    /\ Len(glog[1]) = 1

FsckCalls == {k \in 1..Len(last.calls) : last.calls[k].by = "fsck"}

\* C17: a filesystem check runs fsck only after the handshake succeeded on
\* every group of all_groups(); when a handshake fails fsck is not run and that
\* error is returned.
C17_FsckAfterHandshakes ==
    last.type = "FilesystemCheckRequest" =>
        /\ FsckCalls # {} =>
              last.handshakes =
                  [j \in 1..Len(all_groups) |->
                      [group |-> all_groups[j], call |-> "sync_with_leader", result |-> "ok"]]
        /\ FailedHandshakes # {} =>
              /\ last.calls = <<>>
              /\ last.response.tag = "ErrorResponse"
              /\ \E k \in FailedHandshakes : last.response.code = last.handshakes[k].result

C17_Witness ==
    /\ routed = 2
    /\ last.type = "FilesystemCheckRequest"
    /\ FsckCalls # {}
    /\ Len(last.handshakes) = Len(all_groups)
    /\ last.outcome = "Partial"

\* C18: a filesystem-ready request is answered EmptyResponse only after
\* get_leader succeeded on every group, and with an error when a group has no
\* leader; initialize returns only once it has seen leader_id > 0.
C18_ReadyMeansLeaders ==
    /\ last.type = "FilesystemReadyRequest" =>
          /\ last.response.tag = "EmptyResponse" =>
                last.handshakes =
                    [j \in 1..Len(all_groups) |->
                        [group |-> all_groups[j], call |-> "get_leader", result |-> "ok"]]
          /\ FailedHandshakes # {} =>
                (last.response.tag = "ErrorResponse" /\ last.response.code # "")
    /\ \A n \in Nodes : ipc[n] = "returned" => iseen[n] > 0

C18_Witness ==
    /\ last.type = "FilesystemReadyRequest"
    /\ last.response.tag = "EmptyResponse"
    /\ \E n \in Nodes : ipc[n] = "returned" /\ irounds[n] >= 1 /\ iseen[n] > 0

\* the driver callbacks that are not implemented
NotSupported ==
    {"chmod", "chown", "utimens", "readlink", "mknod", "mkdir", "rmdir", "symlink",
     "rename", "link", "fsync", "fsyncdir", "statfs", "setxattr", "getxattr", "listxattr",
     "removexattr", "access"}

\* C19: every driver callback that is not implemented returns ENOSYS and
\* sends no request to the server.
C19_NotSupported ==
    [][(fcalls' = fcalls + 1 /\ flast'.cb \in NotSupported)
          => (flast'.ret = "ENOSYS" /\ flast'.sent = 0 /\ fsent' = fsent)]_vars

C19_Witness ==
    /\ fcalls = 2
    /\ fsent = 1
    /\ flast = [cb |-> "fsync", ret |-> "ENOSYS", sent |-> 0]

\* C20: after truncate(p, n), get_length(p) is n, whatever length p had
\* before, and the length of every other path is what it was.
C20_TruncateSetsLength ==
    [][\A p \in Paths :
          (mops' = mops + 1 /\ mlast'.op = "truncate" /\ mlast'.path = p)
              => /\ get_length(p)' = Some(mlast'.arg)
                 /\ \A q \in Paths \ {p} : get_length(q)' = get_length(q)]_vars

C20_Witness ==
    /\ mops = 3
    /\ mlast.op = "truncate"
    /\ mlast.arg = 1
    /\ get_length(mlast.path) = Some(1)
    /\ \E q \in Paths \ {mlast.path} : get_length(q) = Some(MaxLength)

\* C28: after write(path, offset, length) the stored length of path is
\* max(old length or 0, offset + length), for every offset and length, and is
\* not below the old length.
C28_WriteExtends ==
    [][\A p \in Paths :
          (mops' = mops + 1 /\ mlast'.op = "write" /\ mlast'.path = p)
              => LET old == IF get_length(p) = None THEN 0 ELSE get_length(p)[1]
                 IN  /\ mlast'.outcome = "Ok"
                     /\ get_length(p)' = Some(Max(old, mlast'.arg + mlast'.length))
                     /\ get_length(p)'[1] >= old]_vars

InPass(t) == thread[t].pc \in PassStatements

\* C21: the raft_node mutex is held from the has_ready check through advance,
\* so two ready-loop passes on one node never interleave.
C21_SingleWriter ==
    \A t \in Threads :
        InPass(t) => (locks.raft_node = t /\ \A u \in Threads \ {t} : ~InPass(u))

C21_Witness ==
    \E t \in Threads, u \in Threads :
        /\ thread[t].pc = "apply_entry"
        /\ thread[u].pc = "queue_lock"
        /\ thread[u].op = "background_tick"

\* the statements of process_raft_queue
QueueStatements == PassStatements \cup {"queue_lock", "has_ready", "send"}

\* C22: only background_tick runs the ready-loop; a step of apply_messages
\* applies nothing, leaves pending_responses alone and sends nothing, and
\* propose applies and sends nothing.
C22_OnlyTickerRunsQueue ==
    [][\A t \in Threads :
          /\ thread'[t].pc \in QueueStatements => thread'[t].op = "background_tick"
          /\ (thread'[t] # thread[t] /\ thread[t].op \in {"apply_messages", "propose"})
                => /\ node'.handled = node.handled
                   /\ node'.applied = node.applied
                   /\ node'.stable = node.stable
                   /\ node'.sent = node.sent
                   /\ thread[t].op = "apply_messages" => node'.table = node.table]_vars

C22_Witness ==
    \E t \in Threads :
        /\ thread[t].op = "apply_messages"
        /\ thread[t].pc = "idle"
        /\ node.commit > node.applied
        /\ node.table # {}
        /\ node.handled = <<>>

\* C23: no thread holds the raft_node mutex or the pending_responses mutex
\* while it hands messages to the transport or waits for its response.
C23_NoLockWhileSuspended ==
    \A t \in Threads :
        thread[t].pc \in {"send", "waiting"}
            => (locks.raft_node # t /\ locks.pending_responses # t)

C23_Witness ==
    \E t \in Threads, u \in Threads :
        /\ thread[t].pc = "waiting"
        /\ thread[u].pc = "send"
        /\ thread[u].messages > 0
        /\ locks.raft_node \notin {0, t, u}

\* C27: in a pass the writes to the log store come before any committed
\* entry is applied, the messages are handed over after the writes and after
\* every apply, advance is called once per pass that had a ready, and a pass
\* without a ready does nothing.
C27_PassOrder ==
    \A t \in Threads :
        LET ev == thread[t].events
        IN  /\ \A k \in 1..Len(ev) :
                 /\ ev[k] = "persist" => k = 1
                 /\ ev[k] = "apply" => (k > 1 /\ ev[k - 1] \in {"persist", "apply"})
                 /\ ev[k] = "advance" => (k > 1 /\ ev[k - 1] \in {"persist", "apply"})
                 /\ ev[k] = "send" => (k = Len(ev) /\ k > 1 /\ ev[k - 1] = "advance")
            /\ Count(ev, "advance") <= 1
            /\ (thread[t].op = "background_tick" /\ thread[t].pc \in {"send", "idle"})
                  => (ev = <<>> \/ Count(ev, "advance") = 1)
            /\ (ev = <<>> /\ thread[t].pc = "send") => thread[t].messages = 0

C27_Witness ==
    \E t \in Threads :
        /\ thread[t].pc = "idle"
        /\ thread[t].events = <<"persist", "apply", "advance", "send">>

\* C30: the pending_responses mutex is taken while holding the raft_node mutex
\* (applier) or no mutex (proposer), the raft_node mutex is never requested
\* while holding the pending_responses mutex, and no two threads wait for each
\* other's mutex.
C30_LockOrder ==
    /\ \A t \in Threads :
          /\ thread[t].pc \in DOMAIN RaftNodeLocks => locks.pending_responses # t
          /\ thread[t].pc = "entry_lock" => locks.raft_node = t
          /\ thread[t].pc = "insert_lock" => locks.raft_node # t
    /\ ~ \E t \in Threads, u \in Threads :
            /\ locks.raft_node = t
            /\ thread[t].pc \in DOMAIN PendingLocks
            /\ locks.pending_responses = u
            /\ thread[u].pc \in DOMAIN RaftNodeLocks

C30_Witness ==
    \E t \in Threads, u \in Threads :
        /\ thread[t].pc = "entry_lock"
        /\ locks.raft_node = t
        /\ thread[u].pc = "insert"
        /\ locks.pending_responses = u

\* C24: pending_responses of a node holds only indexes the node has not yet
\* applied.
C24_OnlyUnapplied ==
    \A n \in Nodes : \A i \in 0..MaxIdx :
        pending_responses[n][i] # 0 => i > applied[n]

\* the records the handler leaves for the non-empty entries lo..hi of node n
RECURSIVE Executed(_, _, _)
Executed(n, lo, hi) ==
    IF lo > hi THEN <<>>
    ELSE IF log[n][hi] = 0 THEN Executed(n, lo, hi - 1)
    ELSE Append(Executed(n, lo, hi - 1), <<hi, log[n][hi]>>)

\* the last entry a pass of node n reached in this step
Reached(n) ==
    IF applied'[n] > applied[n] THEN applied'[n]
    ELSE IF Len(store'[n]) > Len(store[n]) THEN store'[n][Len(store'[n])][1]
    ELSE applied[n]

\* C25: a pass changes storage by running the handler on every non-empty
\* entry it reaches, whether or not a pending response stands at the index,
\* and two replicas that applied the same entries hold the same storage state.
C25_SameEffect ==
    [][\A n \in Nodes :
          /\ store'[n] = store[n] \o Executed(n, applied[n] + 1, Reached(n))
          /\ \A m \in Nodes :
                (applied'[n] = applied'[m] /\ ~poisoned'[n] /\ ~poisoned'[m])
                    => store'[n] = store'[m]]_vars

C25_Witness ==
    \E r \in Requests :
        /\ pc[r] = "done"
        /\ resp[r] = r
        /\ \A n \in Nodes : IndexOf(r, n) # 0 /\ applied[n] >= IndexOf(r, n)
        /\ \A n \in Nodes : \A m \in Nodes : store[n] = store[m]
        /\ \E n \in Nodes : n # pnode[r]

\* C26: a pass that reaches an empty entry runs no handler for it, answers
\* nobody and leaves the pending response at its index in place; every
\* non-empty entry is a proposed request and the pass runs its handler.
C26_EmptySkipped ==
    [][\A n \in Nodes : \A i \in (applied[n] + 1)..Reached(n) :
          /\ log[n][i] = 0 =>
                /\ pending_responses'[n][i] = pending_responses[n][i]
                /\ \A k \in 1..Len(store'[n]) : store'[n][k][1] # i
                /\ pending_responses[n][i] # 0 =>
                      /\ pc'[pending_responses[n][i]] = pc[pending_responses[n][i]]
                      /\ resp'[pending_responses[n][i]] = resp[pending_responses[n][i]]
          /\ log[n][i] # 0 =>
                /\ log[n][i] \in Requests
                /\ \E k \in 1..Len(store'[n]) : store'[n][k] = <<i, log[n][i]>>]_vars

C26_Witness ==
    \E n \in Nodes : \E i \in 1..applied[n] :
        /\ log[n][i] = 0
        /\ pending_responses[n][i] # 0
        /\ pc[pending_responses[n][i]] = "await"
        /\ before[pending_responses[n][i]] = {}
        /\ store[n] # <<>>

\* C29: propose never inserts into pending_responses at an index that holds a
\* waiting entry, so the proposals in flight on a node stand at distinct indexes.
C29_DistinctIndexes ==
    [][\A r \in Requests :
          (pc[r] = "proposed" /\ pc'[r] = "await")
              => pending_responses[pnode[r]][pidx[r]] = 0]_vars

\* C9: a caller that dropped its wait does not make the applier fail: the
\* node's locks stay usable.
C9_CancelHarmless ==
    \A r \in Requests : pc[r] = "cancelled" => ~poisoned[pnode[r]]

\* C10: a proposal the consensus layer rejects is answered with a typed error,
\* and neither the log nor pending_responses changes.
C10_TypedError ==
    [][\A r \in Requests :
          (pc[r] = "idle" /\ pc'[r] # "idle" /\ leader = 0 /\ \A n \in Nodes : ~poisoned[n])
              => /\ pc'[r] \in {"NotLeader", "ProposalDropped"}
                 /\ log' = log
                 /\ pending_responses' = pending_responses]_vars

\* the streams of the client that are open: the stored one and the ones a
\* read holds as a local
LiveStreams ==
    {x \in 1..client.opened :
        \/ client.server_v2_connection = x
        \/ \E t \in Readers : reader[t].stream = x}

\* C31: the client has at most one open data connection, opened by the first
\* read that finds none; a read that returns Ok stores its connection, a read
\* that fails stores none and the next read opens a new one; the requests and
\* responses of two reads never interleave on a stream.
C31_OneConnection ==
    [][/\ Cardinality(LiveStreams') <= 1
       /\ client'.server_v2_connection \notin client'.closed
       /\ \A t \in Readers :
             /\ reader'[t].stream # 0 => (client'.lock = t /\ client'.server_v2_connection = 0)
             /\ (reader[t].pc # "idle" /\ reader'[t].pc = "idle" /\ reader'[t].result = "Ok")
                   => (reader[t].stream # 0
                       /\ client'.server_v2_connection = reader[t].stream)
             /\ (reader[t].pc # "idle" /\ reader'[t].pc = "idle" /\ reader'[t].result = "Err")
                   => (client'.server_v2_connection = 0
                       /\ (reader[t].stream # 0 => reader[t].stream \in client'.closed))
             /\ (reader[t].stream = 0 /\ reader'[t].stream # 0)
                   => /\ reader'[t].stream \notin client.closed
                      /\ IF client.server_v2_connection = 0
                         THEN client'.opened = client.opened + 1
                              /\ reader'[t].stream = client'.opened
                         ELSE client'.opened = client.opened
                              /\ reader'[t].stream = client.server_v2_connection
       /\ \A k \in 1..Len(client'.wire) :
             LET m == client'.wire[k]
             IN  /\ m[3] = "response" =>
                       (k > 1 /\ client'.wire[k - 1] = <<m[1], m[2], "request">>)
                 /\ (m[3] = "request" /\ k > 1 /\ client'.wire[k - 1][3] = "request")
                       => (client'.wire[k - 1][1] # m[1]
                           /\ client'.wire[k - 1][1] \in client'.closed)]_vars

C31_Witness ==
    /\ client.opened = 2
    /\ client.closed = {1}
    /\ client.server_v2_connection = 2
    /\ \E k \in 1..Len(client.wire) : client.wire[k] = <<1, 1, "request">>
    /\ \E k \in 1..Len(client.wire) : client.wire[k] = <<2, 1, "response">>
    /\ \E k \in 1..Len(client.wire) : client.wire[k] = <<2, 2, "response">>

\* C32: rename(path, new_path) with path # new_path moves the length of path
\* to new_path and leaves path without one; when path has no length nothing
\* changes; rename(path, path) keeps the length of path; no other path changes.
C32_RenameMovesLength ==
    [][\A p \in Paths : \A q \in Paths :
          (mops' = mops + 1 /\ mlast'.op = "rename" /\ mlast'.path = p /\ mlast'.new_path = q)
              => /\ (p # q /\ get_length(p) # None)
                        => (get_length(q)' = get_length(p) /\ get_length(p)' = None)
                 /\ get_length(p) = None => file_lengths' = file_lengths
                 /\ p = q => get_length(p)' = get_length(p)
                 /\ \A o \in Paths \ {p, q} : get_length(o)' = get_length(o)]_vars

C32_Witness ==
    /\ mlast.op = "rename"
    /\ mlast.path # mlast.new_path
    /\ get_length(mlast.path) = None
    /\ get_length(mlast.new_path) = Some(MaxLength)

\* C33: after unlink(path) or rmdir(path) the length, the uid and the gid of
\* path are all None, and after rename(path, new_path) new_path has the uid
\* and the gid path had.
C33_NoMetadataLeft ==
    [][\A p \in Paths : \A q \in Paths :
          /\ (mops' = mops + 1 /\ mlast'.op \in {"unlink", "rmdir"} /\ mlast'.path = p)
                => (get_length(p)' = None /\ get_uid(p)' = None /\ get_gid(p)' = None)
          /\ (mops' = mops + 1 /\ mlast'.op = "rename" /\ mlast'.path = p
                /\ mlast'.new_path = q /\ get_length(p) # None)
                => (get_uid(q)' = get_uid(p) /\ get_gid(q)' = get_gid(p))]_vars

\* C34: initialize ends: it makes at most MaxRounds polls with one tick each,
\* returns at the first poll that sees leader_id > 0, panics with "No leader
\* elected" when no poll does, and does not hold the raft_node mutex while it
\* sleeps.
C34_InitializeTerminates ==
    /\ [](\A t \in Threads :
            LET ev == thread[t].events
            IN  thread[t].op = "initialize" =>
                  /\ Polls(t) <= MaxRounds
                  /\ thread[t].pc = "sleep" => locks.raft_node # t
                  /\ \A k \in 1..Len(ev) :
                        /\ ev[k] = "leader" =>
                              (k = Len(ev) /\ k > 1 /\ ev[k - 1] = "tick"
                                 /\ thread[t].pc = "idle")
                        /\ ev[k] = "No leader elected" =>
                              (k = Len(ev) /\ Polls(t) = MaxRounds
                                 /\ thread[t].pc = "panicked")
                  /\ thread[t].pc = "idle" => (ev # <<>> /\ ev[Len(ev)] = "leader")
                  /\ thread[t].pc = "panicked" =>
                        \/ ev # <<>> /\ ev[Len(ev)] = "No leader elected"
                        \/ locks.raft_node_poisoned)
    /\ [][\A t \in Threads :
            (thread[t].pc = "initialize_tick" /\ thread'[t] # thread[t])
                => /\ Len(thread'[t].events) > Len(thread[t].events)
                   /\ leader > 0 <=> thread'[t].pc = "idle"
                   /\ leader = 0 <=> thread'[t].pc = "sleep"
                   /\ locks'.raft_node # t]_vars
    /\ \A t \in Threads :
          (thread[t].op = "initialize") ~> (thread[t].pc \in {"idle", "panicked"})

C34_Witness ==
    /\ thread[1].op = "initialize"
    /\ thread[1].pc = "idle"
    /\ thread[1].events = <<"tick", "tick", "leader">>
    /\ \E t \in Threads \ {1} :
          thread[t].op = "background_tick" /\ "advance" \in {thread[t].events[k] : k \in 1..Len(thread[t].events)}

====
